---------------------------- MODULE Spec2Model ----------------------------
(***************************************************************************)
(* QGAT: QTL and Gene Annotation Tool.                                     *)
(*                                                                         *)
(* A model of the two annotation workflows of src/QGAT: the gene workflow  *)
(* (run_annotate: sort_and_load_gtf, annotate_regions, unique-genes table) *)
(* and the QTL workflow (run_qtl: parse_input_regions, open_auto,          *)
(* parse_qtl_bed / parse_qtl_gff, find_overlapping_qtls, top-10 ranking),  *)
(* plus the two QTL parsers called directly with a path.                   *)
(*                                                                         *)
(* Text is modelled as sequences of one-character strings so that prefix   *)
(* tests, integer parsing and the bracket-stripping regular expression are *)
(* computed, not assumed.  A data frame is a sequence of records.          *)
(***************************************************************************)
EXTENDS Integers, Sequences, FiniteSets, TLC

(***************************************************************************)
(* Bounds of the model: the longest query file and the longest reference   *)
(* file (GTF, BED or GFF) that is enumerated.                              *)
(***************************************************************************)
MaxQuery == 2

MaxRef == 2

\* main.py:72  value_counts().head(10)
TopN == 10

(***************************************************************************)
(* Text helpers                                                            *)
(***************************************************************************)
Digits == {"0", "1", "2", "3", "4", "5", "6", "7", "8", "9"}

DigitVal(c) ==
  CASE c = "0" -> 0 [] c = "1" -> 1 [] c = "2" -> 2 [] c = "3" -> 3
    [] c = "4" -> 4 [] c = "5" -> 5 [] c = "6" -> 6 [] c = "7" -> 7
    [] c = "8" -> 8 [] c = "9" -> 9

\* The literals Python's int() and pandas' integer parsing accept, restricted
\* to the unsigned decimal literals without blanks that the model's files use.
IsIntLiteral(s) == Len(s) > 0 /\ \A i \in 1..Len(s) : s[i] \in Digits

RECURSIVE IntValue(_)
IntValue(s) ==
  IF Len(s) = 0 THEN 0
  ELSE 10 * IntValue(SubSeq(s, 1, Len(s) - 1)) + DigitVal(s[Len(s)])

\* str.startswith
StartsWith(s, p) == Len(s) >= Len(p) /\ SubSeq(s, 1, Len(p)) = p

\* The marker of a missing value in a text column (pandas NaN / Python None).
NaN == "<NaN>"

\* pd.to_numeric(..., errors="coerce"): a number, or NaN for anything else.
ToNumeric(s) ==
  IF IsIntLiteral(s) THEN [nan |-> FALSE, v |-> IntValue(s)]
  ELSE [nan |-> TRUE, v |-> 0]

\* All sequences over S of length at most n.
SeqsUpTo(S, n) == UNION {[1..k -> S] : k \in 0..n}

(***************************************************************************)
(* Chromosome labels and position literals used by the enumerated files.   *)
(***************************************************************************)
ChrPrefix == <<"C", "h", "r", ".">>

L_1 == <<"1">>

L_2 == <<"2">>

L_Chr1 == <<"C", "h", "r", ".", "1">>

L_Chr2 == <<"C", "h", "r", ".", "2">>

\* One row of the tab-separated query file, as read with dtype=str.  The
\* enumerated files all carry the chromosome, start and end columns, so the
\* missing-columns errors of annotate.py:52-54 and utils.py:11-13 do not
\* arise; a missing field is the empty text.
QRow(c, s, e) == [chromosome |-> c, start |-> s, end |-> e]

QueryPool ==
  { QRow(L_1, <<"2">>, <<"4">>),
    QRow(L_Chr1, <<"4">>, <<"1", "0">>),
    QRow(L_2, <<"5">>, <<"6">>),
    QRow(L_1, <<"x">>, <<"4">>),
    QRow(L_1, <<"7">>, <<>>),
    QRow(L_1, <<"5">>, <<"9">>) }

(***************************************************************************)
(* The gene-model (GTF) file.  The attribute column is a sequence of       *)
(* items  key "value"; a db_xref item carries its database name.           *)
(***************************************************************************)
Attr(k, v) == [key |-> k, db |-> "", val |-> v]

Xref(d, v) == [key |-> "db_xref", db |-> d, val |-> v]

GtfRow(c, f, s, e, a) ==
  [chromosome |-> c, feature |-> f, start |-> s, end |-> e, strand |-> "+",
   attribute |-> a]

GtfPool ==
  { GtfRow(L_1, "gene", <<"4">>, <<"5">>,
           <<Attr("gene_id", "G1"), Attr("gene_name", "A"),
             Xref("GeneID", "11"), Attr("gene", "A"),
             Attr("gene_biotype", "protein_coding")>>),
    GtfRow(L_1, "exon", <<"1">>, <<"2">>,
           <<Attr("gene_id", "G1"), Attr("gene_name", "A"),
             Xref("GeneID", "11"), Attr("gene", "A")>>),
    GtfRow(L_1, "transcript", <<"5">>, <<"6">>,
           <<Attr("gene_id", "G2"), Xref("GeneID", "12")>>),
    GtfRow(L_1, "CDS", <<"1">>, <<"9">>,
           <<Attr("gene_id", "G3"), Attr("gene_name", "B"),
             Xref("GeneID", "13"), Attr("gene", "B")>>),
    GtfRow(L_2, "gene", <<"6">>, <<"8">>,
           <<Attr("gene_id", "G4"), Attr("gene_name", "B"),
             Xref("HGNC", "7"), Attr("gene", "B")>>),
    GtfRow(L_Chr1, "gene", <<"1", "0">>, <<"1", "2">>,
           <<Attr("gene_id", "G5"), Xref("GeneID", "15")>>) }

\* Series.str.extract(r'<key> "([^"]+)"')[0]: the value of the first item
\* with that key (and, for db_xref, that database), NaN when there is none.
RECURSIVE Extract(_, _, _)
Extract(attr, k, d) ==
  IF Len(attr) = 0 THEN NaN
  ELSE IF attr[1].key = k /\ attr[1].db = d /\ attr[1].val # "" THEN attr[1].val
  ELSE Extract(Tail(attr), k, d)

GeneFeatures == {"gene", "transcript", "exon"}

\* annotate.py:18-25: the identifier columns of one row.
WithGeneColumns(r, ncbi) ==
  [chromosome |-> r.chromosome, feature |-> r.feature,
   start |-> r.start, end |-> r.end, strand |-> r.strand,
   gene_id |-> IF ncbi THEN Extract(r.attribute, "db_xref", "GeneID")
               ELSE Extract(r.attribute, "gene_id", ""),
   gene_name |-> IF ncbi THEN Extract(r.attribute, "gene", "")
                 ELSE Extract(r.attribute, "gene_name", ""),
   gene_biotype |-> Extract(r.attribute, "gene_biotype", "")]

\* annotate.py:28: gtf_df[gtf_df["feature"].isin([...])]
IsGeneLike(r) == r.feature \in GeneFeatures

\* annotate.py:30-33: dropna on the identifier, then on the coerced positions.
GtfRowUsable(r) ==
  /\ r.gene_id # NaN
  /\ ~ToNumeric(r.start).nan
  /\ ~ToNumeric(r.end).nan

\* annotate.py:35-40: the returned columns, width derived.
GeneRecord(r) ==
  [chromosome |-> r.chromosome, start |-> ToNumeric(r.start).v,
   end |-> ToNumeric(r.end).v,
   width |-> ToNumeric(r.end).v - ToNumeric(r.start).v + 1,
   strand |-> r.strand, gene_id |-> r.gene_id, gene_name |-> r.gene_name,
   gene_biotype |-> r.gene_biotype]

\* annotate.py:15-16: the emptiness test, made on the table as read.
GtfIsEmpty(file) == Len(file) = 0

\* annotate.py:18-40: the table sort_and_load_gtf returns.
LoadGtf(file, ncbi) ==
  LET cols == [i \in 1..Len(file) |-> WithGeneColumns(file[i], ncbi)]
      kept == SelectSeq(SelectSeq(cols, IsGeneLike), GtfRowUsable)
  IN  [i \in 1..Len(kept) |-> GeneRecord(kept[i])]

(***************************************************************************)
(* annotate_regions                                                        *)
(***************************************************************************)
\* annotate.py:56-58: coerce the positions, drop the rows left without one.
QueryRowNumeric(r) == ~ToNumeric(r.start).nan /\ ~ToNumeric(r.end).nan

CoerceAndDrop(file) ==
  LET kept == SelectSeq(file, QueryRowNumeric)
  IN  [i \in 1..Len(kept) |->
         [chromosome |-> kept[i].chromosome,
          start |-> ToNumeric(kept[i].start).v,
          end |-> ToNumeric(kept[i].end).v]]

\* A variant of the filter with strict comparisons.
GeneMatches_Strict(region, gene) ==
  /\ gene.chromosome = region.chromosome
  /\ gene.end > region.start
  /\ gene.start < region.end

\* annotate.py:63-67: the row filter of one region over the gene table.
GeneMatches(region, gene) ==
  /\ gene.chromosome = region.chromosome
  /\ gene.end >= region.start
  /\ gene.start <= region.end

\* annotate.py:69-81: the record appended for one (region, gene) pair.
GeneOverlapRecord(region, gene) ==
  [chromosome |-> region.chromosome, start |-> region.start,
   end |-> region.end, gene_chr |-> gene.chromosome,
   gene_start_pos |-> gene.start, gene_end_pos |-> gene.end,
   width |-> gene.width, strand |-> gene.strand, gene_id |-> gene.gene_id,
   gene_name |-> gene.gene_name, gene_biotype |-> gene.gene_biotype]

\* annotate.py:60-81: the nested loop, regions outermost.
RECURSIVE GeneOverlaps(_, _)
GeneOverlaps(regions, genes) ==
  IF Len(regions) = 0 THEN <<>>
  ELSE LET region == Head(regions)
           Hit(g) == GeneMatches(region, g)
           match  == SelectSeq(genes, Hit)
       IN  [i \in 1..Len(match) |-> GeneOverlapRecord(region, match[i])]
           \o GeneOverlaps(Tail(regions), genes)

\* annotate.py:85-87: the distinct labels of a table's chromosome column.
ChromosomeSet(df) == {df[i].chromosome : i \in 1..Len(df)}

\* A variant that pools the labels instead of intersecting them.
CommonChromosomes_Union(df, genes) ==
  ChromosomeSet(df) \cup ChromosomeSet(genes)

\* annotate.py:87: input_chrs.intersection(gtf_chrs)
CommonChromosomes(df, genes) ==
  ChromosomeSet(df) \cap ChromosomeSet(genes)

\* annotate.py:102: fillna("NA").replace("", "NA") on gene_name.
FillGeneName(n) == IF n = NaN \/ n = "" THEN "NA" ELSE n

NameFilled(rec) == [rec EXCEPT !.gene_name = FillGeneName(rec.gene_name)]

\* A variant that keeps the last record of each name.
DropDuplicateNames_KeepLast(df) ==
  LET Last(i) == \A j \in (i + 1)..Len(df) : df[j].gene_name # df[i].gene_name
      RECURSIVE Keep(_)
      Keep(i) == IF i > Len(df) THEN <<>>
                 ELSE (IF Last(i) THEN <<df[i]>> ELSE <<>>) \o Keep(i + 1)
  IN  Keep(1)

\* annotate.py:126: drop_duplicates(subset=["gene_name"]), keep="first".
DropDuplicateNames(df) ==
  LET First(i) == \A j \in 1..(i - 1) : df[j].gene_name # df[i].gene_name
      RECURSIVE Keep(_)
      Keep(i) == IF i > Len(df) THEN <<>>
                 ELSE (IF First(i) THEN <<df[i]>> ELSE <<>>) \o Keep(i + 1)
  IN  Keep(1)

(***************************************************************************)
(* parse_input_regions (the query parser of the QTL workflow)              *)
(***************************************************************************)
\* A variant that prefixes every label.
NormalizeChromosome_Always(x) == ChrPrefix \o x

\* utils.py:14-16: the lambda applied to the chromosome column.
NormalizeChromosome(x) ==
  IF ~StartsWith(x, ChrPrefix) THEN ChrPrefix \o x ELSE x

\* A variant that converts the start column only.
AsTypeIntRaises_StartOnly(file) ==
  \E i \in 1..Len(file) : ~IsIntLiteral(file[i].start)

\* utils.py:17-18: astype(int) raises as soon as one value is no integer.
AsTypeIntRaises(file) ==
  \E i \in 1..Len(file) :
    ~IsIntLiteral(file[i].start) \/ ~IsIntLiteral(file[i].end)

\* utils.py:14-19: the table returned when nothing raises.
ParseInputRegions(file) ==
  [i \in 1..Len(file) |->
     [chromosome |-> NormalizeChromosome(file[i].chromosome),
      start |-> IntValue(file[i].start),
      end |-> IntValue(file[i].end)]]

(***************************************************************************)
(* parse_qtl_bed: a row is the sequence of its tab-separated columns.      *)
(***************************************************************************)
Sp == " "

\* str.strip() for blanks.
RECURSIVE LStrip(_)
LStrip(s) == IF Len(s) > 0 /\ s[1] = Sp THEN LStrip(Tail(s)) ELSE s

RECURSIVE RStrip(_)
RStrip(s) ==
  IF Len(s) > 0 /\ s[Len(s)] = Sp THEN RStrip(SubSeq(s, 1, Len(s) - 1)) ELSE s

Strip(s) == RStrip(LStrip(s))

\* " ".join(parts)
RECURSIVE JoinSp(_)
JoinSp(parts) ==
  IF Len(parts) = 0 THEN <<>>
  ELSE IF Len(parts) = 1 THEN parts[1]
  ELSE parts[1] \o <<Sp>> \o JoinSp(Tail(parts))

\* The marker of Python's None in the qtl_number column.
NoneVal == <<"None">>

\* The length of the run of digits of s that starts at position i.
RECURSIVE DigitRun(_, _)
DigitRun(s, i) ==
  IF i <= Len(s) /\ s[i] \in Digits THEN 1 + DigitRun(s, i + 1) ELSE 0

\* utils.py:54-56: re.match(r"\((\d+)\)", val), group 1 or None.
MatchQtlNumber(val) ==
  LET n == DigitRun(val, 2)
  IN  IF Len(val) >= 3 /\ val[1] = "(" /\ n >= 1
         /\ Len(val) >= n + 2 /\ val[n + 2] = ")"
      THEN SubSeq(val, 2, n + 1)
      ELSE NoneVal

\* A variant of the scan without the break: every column is appended and
\* the last match is the number.
RECURSIVE ScanName_NoBreak(_)
ScanName_NoBreak(vals) ==
  IF Len(vals) = 0 THEN [parts |-> <<>>, number |-> NoneVal]
  ELSE LET m == MatchQtlNumber(vals[1])
           rest == ScanName_NoBreak(Tail(vals))
       IN  [parts |-> <<vals[1]>> \o rest.parts,
            number |-> IF rest.number # NoneVal THEN rest.number ELSE m]

\* utils.py:50-57: the scan of columns 3..N; it stops at the first match.
RECURSIVE ScanName(_)
ScanName(vals) ==
  IF Len(vals) = 0 THEN [parts |-> <<>>, number |-> NoneVal]
  ELSE LET m == MatchQtlNumber(vals[1])
       IN  IF m # NoneVal THEN [parts |-> <<vals[1]>>, number |-> m]
           ELSE LET rest == ScanName(Tail(vals))
                IN  [parts |-> <<vals[1]>> \o rest.parts,
                     number |-> rest.number]

\* utils.py:47-48: int(row[1]), int(row[2]) raise ValueError.
BedRowRaises(row) == ~IsIntLiteral(row[2]) \/ ~IsIntLiteral(row[3])

\* utils.py:46-66: the record appended for one row of at least 4 columns.
BedRecord(row) ==
  LET scan == ScanName(SubSeq(row, 4, Len(row)))
  IN  [chromosome |-> row[1], qtl_start |-> IntValue(row[2]),
       qtl_end |-> IntValue(row[3]),
       qtl_name |-> Strip(JoinSp(scan.parts)),
       qtl_number |-> scan.number]

\* utils.py:43-66: the loop over the rows; raised tells whether a row raised,
\* and then no table is returned.
RECURSIVE ParseBedRows(_)
ParseBedRows(rows) ==
  IF Len(rows) = 0 THEN [data |-> <<>>, raised |-> FALSE]
  ELSE IF Len(rows[1]) < 4 THEN ParseBedRows(Tail(rows))
  ELSE IF BedRowRaises(rows[1]) THEN [data |-> <<>>, raised |-> TRUE]
  ELSE LET rest == ParseBedRows(Tail(rows))
       IN  IF rest.raised THEN rest
           ELSE [data |-> <<BedRecord(rows[1])>> \o rest.data,
                 raised |-> FALSE]

(***************************************************************************)
(* parse_qtl_gff: a line is a comment or blank line, or its columns; the   *)
(* attribute column is the sequence of its ;-separated items, each the     *)
(* sequence of its =-separated pieces.                                     *)
(***************************************************************************)
GffLine(skip, n, c, t, s, e, info) ==
  [skipped |-> skip, ncols |-> n, chromosome |-> c, trait |-> t,
   start |-> s, end |-> e, info |-> info]

\* utils.py:110: "if '=' in item"
HasEquals(item) == Len(item) >= 2

\* utils.py:109-111: dict() of the split items raises ValueError on an item
\* with more than one "=" (a sequence of 3 elements is no key/value pair).
InfoRaises(info) == \E i \in 1..Len(info) : Len(info[i]) > 2

\* dict.get(key, ""): the last item with the key wins in dict().
RECURSIVE InfoGet(_, _)
InfoGet(info, key) ==
  IF Len(info) = 0 THEN ""
  ELSE LET last == info[Len(info)]
       IN  IF HasEquals(last) /\ last[1] = key THEN last[2]
           ELSE InfoGet(SubSeq(info, 1, Len(info) - 1), key)

\* utils.py:105-106 and 109: what makes a 9-column line raise.
GffLineRaises(line) ==
  \/ ~IsIntLiteral(line.start)
  \/ ~IsIntLiteral(line.end)
  \/ InfoRaises(line.info)

\* utils.py:113-121
GffRecord(line) ==
  [chromosome |-> line.chromosome, qtl_start |-> IntValue(line.start),
   qtl_end |-> IntValue(line.end), qtl_name |-> InfoGet(line.info, "Name"),
   qtl_number |-> InfoGet(line.info, "QTL_ID"), trait |-> line.trait,
   p_value |-> InfoGet(line.info, "P-value")]

\* utils.py:96-123
RECURSIVE ParseGffLines(_)
ParseGffLines(lines) ==
  IF Len(lines) = 0 THEN [data |-> <<>>, raised |-> FALSE]
  ELSE IF lines[1].skipped \/ lines[1].ncols # 9
       THEN ParseGffLines(Tail(lines))
  ELSE IF GffLineRaises(lines[1]) THEN [data |-> <<>>, raised |-> TRUE]
  ELSE LET rest == ParseGffLines(Tail(lines))
       IN  IF rest.raised THEN rest
           ELSE [data |-> <<GffRecord(lines[1])>> \o rest.data,
                 raised |-> FALSE]

(***************************************************************************)
(* find_overlapping_qtls                                                   *)
(***************************************************************************)
\* utils.py:135-139: the row filter of one region over the QTL table.
QtlMatches(region, qtl) ==
  /\ qtl.chromosome = region.chromosome
  /\ qtl.qtl_end >= region.start
  /\ qtl.qtl_start <= region.end

\* utils.py:141-152: the named columns, then every other column of the QTL
\* row that the record does not hold yet (trait and p_value of a GFF row).
QtlOverlapRecord(region, qtl) ==
  [chromosome |-> region.chromosome, region_start |-> region.start,
   region_end |-> region.end, qtl_start |-> qtl.qtl_start,
   qtl_end |-> qtl.qtl_end, qtl_name |-> qtl.qtl_name,
   qtl_number |-> qtl.qtl_number] @@ qtl

\* A variant of the loop with the QTL rows outermost.
RECURSIVE QtlOverlaps_RefMajor(_, _)
QtlOverlaps_RefMajor(regions, qtls) ==
  IF Len(qtls) = 0 THEN <<>>
  ELSE LET qtl == Head(qtls)
           Hit(r) == QtlMatches(r, qtl)
           match  == SelectSeq(regions, Hit)
       IN  [i \in 1..Len(match) |-> QtlOverlapRecord(match[i], qtl)]
           \o QtlOverlaps_RefMajor(regions, Tail(qtls))

\* utils.py:134-153: the nested loop, regions outermost.
RECURSIVE QtlOverlaps(_, _)
QtlOverlaps(regions, qtls) ==
  IF Len(regions) = 0 THEN <<>>
  ELSE LET region == Head(regions)
           Hit(q) == QtlMatches(region, q)
           match  == SelectSeq(qtls, Hit)
       IN  [i \in 1..Len(match) |-> QtlOverlapRecord(region, match[i])]
           \o QtlOverlaps(Tail(regions), qtls)

\* utils.py:135-136: a table built from no record has no column, and
\* qtl_df['chromosome'] raises KeyError in the first pass of the loop.
QtlLookupRaises(regions, qtls) == Len(regions) > 0 /\ Len(qtls) = 0

(***************************************************************************)
(* The top-10 ranking of run_qtl                                           *)
(***************************************************************************)
\* The position just after the first ")" of s at or after position i, 0 when
\* there is none.
RECURSIVE CloseAfter(_, _)
CloseAfter(s, i) ==
  IF i > Len(s) THEN 0
  ELSE IF s[i] = ")" THEN i + 1
  ELSE CloseAfter(s, i + 1)

\* The number of blanks of s from position i on.
RECURSIVE BlankRun(_, _)
BlankRun(s, i) ==
  IF i <= Len(s) /\ s[i] = Sp THEN 1 + BlankRun(s, i + 1) ELSE 0

\* main.py:27: re.sub(r"\s*\(.*?\)", "", name): every leftmost match, blanks
\* then "(" up to the next ")", is removed wherever it stands in the name.
RECURSIVE SubBrackets(_)
SubBrackets(s) ==
  IF Len(s) = 0 THEN <<>>
  ELSE LET open == 1 + BlankRun(s, 1)
           next == IF open <= Len(s) /\ s[open] = "("
                   THEN CloseAfter(s, open + 1) ELSE 0
       IN  IF next > 0 THEN SubBrackets(SubSeq(s, next, Len(s)))
           ELSE <<s[1]>> \o SubBrackets(Tail(s))

\* main.py:25-27
clean_qtl_name(name) == Strip(SubBrackets(name))

\* Series.value_counts(): the distinct values in the order they are first
\* met, each with its count ...
RECURSIVE CountIn(_, _)
CountIn(keys, k) ==
  IF Len(keys) = 0 THEN 0
  ELSE (IF keys[1] = k THEN 1 ELSE 0) + CountIn(Tail(keys), k)

RECURSIVE FirstSeen(_, _)
FirstSeen(keys, seen) ==
  IF Len(keys) = 0 THEN <<>>
  ELSE IF keys[1] \in seen THEN FirstSeen(Tail(keys), seen)
  ELSE <<keys[1]>> \o FirstSeen(Tail(keys), seen \cup {keys[1]})

\* ... sorted by decreasing count with a stable sort: an entry goes behind
\* every entry whose count is not smaller.
RECURSIVE InsertByCount(_, _)
InsertByCount(sorted, e) ==
  IF Len(sorted) = 0 THEN <<e>>
  ELSE IF sorted[1].count >= e.count
       THEN <<sorted[1]>> \o InsertByCount(Tail(sorted), e)
  ELSE <<e>> \o sorted

RECURSIVE SortByCount(_, _)
SortByCount(entries, acc) ==
  IF Len(entries) = 0 THEN acc
  ELSE SortByCount(Tail(entries), InsertByCount(acc, entries[1]))

ValueCounts(keys) ==
  LET distinct == FirstSeen(keys, {})
      entries == [i \in 1..Len(distinct) |->
                    [name |-> distinct[i], count |-> CountIn(keys, distinct[i])]]
  IN  SortByCount(entries, <<>>)

\* .head(n)
HeadN(s, n) == SubSeq(s, 1, IF Len(s) < n THEN Len(s) ELSE n)

\* main.py:71-72
TopQtls(result) ==
  HeadN(ValueCounts([i \in 1..Len(result) |-> clean_qtl_name(result[i].qtl_name)]),
        TopN)

(***************************************************************************)
(* The enumerated QTL files                                                *)
(***************************************************************************)
BedPool ==
  { <<L_Chr1, <<"2">>, <<"4">>, <<"a">>, <<"(", "1", ")">> >>,
    <<L_Chr1, <<"5">>, <<"6">>, <<"a", " ", "(", "x", ")">>,
      <<"(", "2", ")">>, <<"z">> >>,
    <<L_Chr1, <<"1">>, <<"3">>, <<"b">> >>,
    <<L_Chr2, <<"5">>, <<"9">>, <<"b">>, <<"(", "3", ")">> >>,
    <<L_Chr1, <<"x">>, <<"4">>, <<"c">> >>,
    <<L_Chr1, <<"2">>, <<"3">> >>,
    <<L_Chr2, <<"1">>, <<"3">>, <<"c", " ", "(", "4", ")">>,
      <<"(", "3", ")", "x">>, <<"(", "5", ")">> >> }

GffPool ==
  { GffLine(FALSE, 9, L_Chr1, "Milk", <<"2">>, <<"4">>,
            << <<"Name", "a">>, <<"QTL_ID", "1">>, <<"P-value", "0.01">> >>),
    GffLine(TRUE, 1, <<>>, "", <<>>, <<>>, <<>>),
    GffLine(FALSE, 8, L_Chr1, "Milk", <<"2">>, <<"4">>, <<>>),
    GffLine(FALSE, 9, L_Chr2, "Fat", <<"5">>, <<"9">>,
            << <<"flag">>, <<"Name", "b">> >>),
    GffLine(FALSE, 9, L_Chr1, "Fat", <<"3">>, <<"y">>, <<>>),
    GffLine(FALSE, 9, L_Chr1, "Fat", <<"1">>, <<"3">>,
            << <<"Name", "c", "d">> >>) }

(***************************************************************************)
(* The state machine.  One behaviour is one invocation: the annotate or    *)
(* the qtl sub-command of main (the latter with or without --trait), or a  *)
(* direct call of parse_qtl_bed / parse_qtl_gff with a path.               *)
(***************************************************************************)
VARIABLES
  cmd,          \* the entry point taken
  is_ncbi,      \* args.ncbi
  input_file,   \* the rows of the query file
  ref_file,     \* the rows of the GTF, BED or GFF file
  pc,           \* the position in the invocation
  gtf_df,       \* the table sort_and_load_gtf returned
  input_df,     \* the query table
  qtl_df,       \* the table the QTL parser returned
  result_df,    \* the overlap table
  unique_df,    \* the unique-genes table
  summary,      \* the counts printed by run_annotate / run_qtl
  top_qtls,     \* the ranking printed by run_qtl
  error,        \* the exception raised, "none" when there is none
  notices,      \* the non-fatal notices printed
  written,      \* the output files written
  exit_code,    \* the exit status of main, -1 while it runs
  stream,       \* the source stream of the QTL file
  should_close, \* the parser's should_close
  raised        \* whether the parser's loop raised

vars == <<cmd, is_ncbi, input_file, ref_file, pc, gtf_df, input_df, qtl_df,
          result_df, unique_df, summary, top_qtls, error, notices, written,
          exit_code, stream, should_close, raised>>

Commands == {"annotate", "qtl", "qtl_trait", "parse_qtl_bed", "parse_qtl_gff"}

\* main.py:53  args.trait
Trait == cmd = "qtl_trait"

ViaMain == cmd \in {"annotate", "qtl", "qtl_trait"}

UsesGff == cmd \in {"qtl_trait", "parse_qtl_gff"}

NoStream == [state |-> "unopened", opener |-> "none", closers |-> <<>>]

NoSummary == [regions |-> 0, overlaps |-> 0, unique |-> 0]

Init ==
  /\ cmd \in Commands
  /\ is_ncbi \in (IF cmd = "annotate" THEN BOOLEAN ELSE {FALSE})
  /\ input_file \in (IF ViaMain THEN SeqsUpTo(QueryPool, MaxQuery) ELSE {<<>>})
  /\ ref_file \in (IF cmd = "annotate" THEN SeqsUpTo(GtfPool, MaxRef)
                   ELSE IF UsesGff THEN SeqsUpTo(GffPool, MaxRef)
                   ELSE SeqsUpTo(BedPool, MaxRef))
  /\ pc = "start"
  /\ gtf_df = <<>>
  /\ input_df = <<>>
  /\ qtl_df = <<>>
  /\ result_df = <<>>
  /\ unique_df = <<>>
  /\ summary = NoSummary
  /\ top_qtls = <<>>
  /\ error = "none"
  /\ notices = {}
  /\ written = {}
  /\ exit_code = -1
  /\ stream = NoStream
  /\ should_close = FALSE
  /\ raised = FALSE

\* main.py:186-188: an exception that reaches main is printed and the
\* process exits with status 1.
Fail(kind) ==
  /\ error' = kind
  /\ pc' = "failed"
  /\ exit_code' = IF ViaMain THEN 1 ELSE exit_code

(***************************************************************************)
(* The gene workflow                                                       *)
(***************************************************************************)
\* annotate.py:7-40
SortAndLoadGtf ==
  /\ cmd = "annotate" /\ pc = "start"
  /\ \/ /\ Fail("NotFoundOrUnreadable")
        /\ UNCHANGED gtf_df
     \/ /\ GtfIsEmpty(ref_file)
        /\ Fail("EmptyInput")
        /\ UNCHANGED gtf_df
     \/ /\ ~GtfIsEmpty(ref_file)
        /\ gtf_df' = LoadGtf(ref_file, is_ncbi)
        /\ pc' = "gtf_loaded"
        /\ UNCHANGED <<error, exit_code>>
  /\ UNCHANGED <<cmd, is_ncbi, input_file, ref_file, input_df, qtl_df,
                 result_df, unique_df, summary, top_qtls, notices, written,
                 stream, should_close, raised>>

\* annotate.py:43-103
AnnotateRegions ==
  /\ cmd = "annotate" /\ pc = "gtf_loaded"
  /\ \/ /\ Fail("NotFoundOrUnreadable")
        /\ UNCHANGED <<input_df, result_df, notices>>
     \/ /\ Len(input_file) = 0
        /\ Fail("EmptyInput")
        /\ UNCHANGED <<input_df, result_df, notices>>
     \/ /\ Len(input_file) > 0
        /\ LET df == CoerceAndDrop(input_file)
               overlaps == GeneOverlaps(df, gtf_df)
               common == CommonChromosomes(df, gtf_df)
           IN  /\ input_df' = df
               /\ IF overlaps = <<>>
                  THEN IF common = {}
                       THEN /\ Fail("ChromosomeMismatch")
                            /\ UNCHANGED <<result_df, notices>>
                       ELSE /\ notices' = notices \cup {"NoOverlapChromosomesMatch"}
                            /\ result_df' = <<>>
                            /\ pc' = "annotated"
                            /\ UNCHANGED <<error, exit_code>>
                  ELSE /\ result_df' =
                            [i \in 1..Len(overlaps) |-> NameFilled(overlaps[i])]
                       /\ pc' = "annotated"
                       /\ UNCHANGED <<error, exit_code, notices>>
  /\ UNCHANGED <<cmd, is_ncbi, input_file, ref_file, gtf_df, qtl_df, unique_df,
                 summary, top_qtls, written, stream, should_close, raised>>

\* annotate.py:113-151 (main.py:86-124): the rest of run_annotate.
RunAnnotateSummary ==
  /\ cmd = "annotate" /\ pc = "annotated"
  /\ IF result_df = <<>>
     THEN /\ notices' = notices \cup {"NoOverlappingGenes"}
          /\ summary' = [regions |-> Len(input_file), overlaps |-> 0,
                         unique |-> 0]
          /\ UNCHANGED <<unique_df, written>>
     ELSE /\ unique_df' = DropDuplicateNames(result_df)
          /\ summary' = [regions |-> Len(input_file),
                         overlaps |-> Len(result_df),
                         unique |-> Len(DropDuplicateNames(result_df))]
          /\ written' = written \cup {"output", "summary", "unique"}
          /\ UNCHANGED notices
  /\ pc' = "done"
  /\ exit_code' = 0
  /\ UNCHANGED <<cmd, is_ncbi, input_file, ref_file, gtf_df, input_df, qtl_df,
                 result_df, top_qtls, error, stream, should_close, raised>>

(***************************************************************************)
(* The QTL workflow and the QTL parsers                                    *)
(***************************************************************************)
\* main.py:51 and utils.py:9-19
RunQtlParseInput ==
  /\ cmd \in {"qtl", "qtl_trait"} /\ pc = "start"
  /\ \/ /\ Fail("NotFoundOrUnreadable")
        /\ UNCHANGED input_df
     \/ /\ AsTypeIntRaises(input_file)
        /\ Fail("ParseError")
        /\ UNCHANGED input_df
     \/ /\ ~AsTypeIntRaises(input_file)
        /\ input_df' = ParseInputRegions(input_file)
        /\ pc' = "input_parsed"
        /\ UNCHANGED <<error, exit_code>>
  /\ UNCHANGED <<cmd, is_ncbi, input_file, ref_file, gtf_df, qtl_df, result_df,
                 unique_df, summary, top_qtls, notices, written, stream,
                 should_close, raised>>

\* main.py:13-23, entered by the with statements of main.py:55 and 59: the
\* plain file, else the .gz file, else FileNotFoundError.
OpenAuto ==
  /\ cmd \in {"qtl", "qtl_trait"} /\ pc = "input_parsed"
  /\ \/ /\ stream' = [state |-> "open", opener |-> "run_qtl", closers |-> <<>>]
        /\ pc' = "opened"
        /\ UNCHANGED <<error, exit_code>>
     \/ /\ Fail("NotFoundOrUnreadable")
        /\ UNCHANGED stream
  /\ UNCHANGED <<cmd, is_ncbi, input_file, ref_file, gtf_df, input_df, qtl_df,
                 result_df, unique_df, summary, top_qtls, notices, written,
                 should_close, raised>>

\* utils.py:31 and 85: isinstance(source, (str, bytes, os.PathLike)); run_qtl
\* passes the open file, a direct call passes a path.
SourceIsPath == cmd \in {"parse_qtl_bed", "parse_qtl_gff"}

\* A variant in which the parser closes whatever it was given.
ShouldClose_Always(isPath) == TRUE

\* utils.py:36/39 and 90/93
ShouldClose(isPath) == isPath

\* utils.py:29-39 and 82-93: the parser takes the stream, or opens the path.
ParserEnter ==
  /\ \/ cmd \in {"qtl", "qtl_trait"} /\ pc = "opened"
     \/ SourceIsPath /\ pc = "start"
  /\ \/ /\ SourceIsPath
        /\ Fail("NotFoundOrUnreadable")
        /\ UNCHANGED <<stream, should_close>>
     \/ /\ stream' = IF SourceIsPath
                     THEN [state |-> "open", opener |-> "parser",
                           closers |-> <<>>]
                     ELSE stream
        /\ should_close' = ShouldClose(SourceIsPath)
        /\ pc' = "parsing"
        /\ UNCHANGED <<error, exit_code>>
  /\ UNCHANGED <<cmd, is_ncbi, input_file, ref_file, gtf_df, input_df, qtl_df,
                 result_df, unique_df, summary, top_qtls, notices, written,
                 raised>>

\* utils.py:41-66 and 95-123: the body of the try statement.
ParserLoop ==
  /\ pc = "parsing"
  /\ LET r == IF UsesGff THEN ParseGffLines(ref_file)
              ELSE ParseBedRows(ref_file)
     IN  /\ raised' = r.raised
         /\ qtl_df' = r.data
  /\ pc' = "finally"
  /\ UNCHANGED <<cmd, is_ncbi, input_file, ref_file, gtf_df, input_df,
                 result_df, unique_df, summary, top_qtls, error, notices,
                 written, exit_code, stream, should_close>>

\* file.close()
Closed(s, by) ==
  [s EXCEPT !.state = "closed", !.closers = Append(s.closers, by)]

\* utils.py:67-71 and 124-128: the finally clause; then the return, or the
\* exception goes on to the caller.
FinallyClause(s, close) == IF close THEN Closed(s, "parser") ELSE s

ParserFinally ==
  /\ pc = "finally"
  /\ stream' = FinallyClause(stream, should_close)
  /\ IF SourceIsPath
     THEN IF raised
          THEN Fail("ParseError")
          ELSE pc' = "done" /\ UNCHANGED <<error, exit_code>>
     ELSE /\ pc' = "with_exit"
          /\ error' = IF raised THEN "ParseError" ELSE error
          /\ UNCHANGED exit_code
  /\ UNCHANGED <<cmd, is_ncbi, input_file, ref_file, gtf_df, input_df, qtl_df,
                 result_df, unique_df, summary, top_qtls, notices, written,
                 should_close, raised>>

\* main.py:55-56 and 59-60: leaving the with block closes the file, on the
\* normal path and on the exception path alike.
WithExit(s) == Closed(s, "run_qtl")

RunQtlWithExit ==
  /\ pc = "with_exit"
  /\ stream' = WithExit(stream)
  /\ IF raised
     THEN Fail(error)
     ELSE pc' = "qtl_loaded" /\ UNCHANGED <<error, exit_code>>
  /\ UNCHANGED <<cmd, is_ncbi, input_file, ref_file, gtf_df, input_df, qtl_df,
                 result_df, unique_df, summary, top_qtls, notices, written,
                 should_close, raised>>

\* main.py:62 and utils.py:131-155
FindOverlappingQtls ==
  /\ pc = "qtl_loaded"
  /\ IF QtlLookupRaises(input_df, qtl_df)
     THEN /\ Fail("KeyError")
          /\ UNCHANGED result_df
     ELSE /\ result_df' = QtlOverlaps(input_df, qtl_df)
          /\ pc' = "overlapped"
          /\ UNCHANGED <<error, exit_code>>
  /\ UNCHANGED <<cmd, is_ncbi, input_file, ref_file, gtf_df, input_df, qtl_df,
                 unique_df, summary, top_qtls, notices, written, stream,
                 should_close, raised>>

\* main.py:63-75: the table is written whatever it holds, the counts are
\* printed, and the ranking too when there are records and --trait is off.
RunQtlSummary ==
  /\ pc = "overlapped"
  /\ written' = written \cup {"output"}
  /\ summary' = [regions |-> Len(input_df), overlaps |-> Len(result_df),
                 unique |-> 0]
  /\ top_qtls' = IF result_df # <<>> /\ ~Trait THEN TopQtls(result_df)
                 ELSE top_qtls
  /\ pc' = "done"
  /\ exit_code' = 0
  /\ UNCHANGED <<cmd, is_ncbi, input_file, ref_file, gtf_df, input_df, qtl_df,
                 result_df, unique_df, error, notices, stream, should_close,
                 raised>>

Next ==
  \/ SortAndLoadGtf
  \/ AnnotateRegions
  \/ RunAnnotateSummary
  \/ RunQtlParseInput
  \/ OpenAuto
  \/ ParserEnter
  \/ ParserLoop
  \/ ParserFinally
  \/ RunQtlWithExit
  \/ FindOverlappingQtls
  \/ RunQtlSummary

Spec == Init /\ [][Next]_vars

(***************************************************************************)
(* Properties                                                              *)
(***************************************************************************)
\* The overlap predicate of the specification, on a query interval and a
\* reference feature given by their chromosome, start and end.
Overlap(qc, qs, qe, rc, rs, re) == rc = qc /\ re >= qs /\ rs <= qe

\* The (query, reference) index pairs of the gene workflow that satisfy it.
GenePairs ==
  {p \in (1..Len(input_df)) \X (1..Len(gtf_df)) :
     Overlap(input_df[p[1]].chromosome, input_df[p[1]].start,
             input_df[p[1]].end, gtf_df[p[2]].chromosome,
             gtf_df[p[2]].start, gtf_df[p[2]].end)}

\* The same for the QTL workflow.
QtlPairs ==
  {p \in (1..Len(input_df)) \X (1..Len(qtl_df)) :
     Overlap(input_df[p[1]].chromosome, input_df[p[1]].start,
             input_df[p[1]].end, qtl_df[p[2]].chromosome,
             qtl_df[p[2]].qtl_start, qtl_df[p[2]].qtl_end)}

\* What identifies the pair in an emitted gene record ...
GeneKey(rec) ==
  <<rec.chromosome, rec.start, rec.end, rec.gene_chr, rec.gene_start_pos,
    rec.gene_end_pos, rec.width, rec.strand, rec.gene_id, rec.gene_biotype>>

GenePairKey(p) ==
  <<input_df[p[1]].chromosome, input_df[p[1]].start, input_df[p[1]].end,
    gtf_df[p[2]].chromosome, gtf_df[p[2]].start, gtf_df[p[2]].end,
    gtf_df[p[2]].width, gtf_df[p[2]].strand, gtf_df[p[2]].gene_id,
    gtf_df[p[2]].gene_biotype>>

\* ... and in an emitted QTL record.
QtlKey(rec) ==
  <<rec.chromosome, rec.region_start, rec.region_end, rec.qtl_start,
    rec.qtl_end, rec.qtl_name, rec.qtl_number>>

QtlPairKey(p) ==
  <<input_df[p[1]].chromosome, input_df[p[1]].start, input_df[p[1]].end,
    qtl_df[p[2]].qtl_start, qtl_df[p[2]].qtl_end, qtl_df[p[2]].qtl_name,
    qtl_df[p[2]].qtl_number>>

GeneOverlapDone == cmd = "annotate" /\ pc \in {"annotated", "done"}

QtlOverlapDone == cmd \in {"qtl", "qtl_trait"} /\ pc \in {"overlapped", "done"}

\* C1: the records emitted by annotate_regions and by find_overlapping_qtls
\* are exactly the (query, reference) pairs on the same chromosome whose
\* closed intervals intersect: every emitted record satisfies the predicate,
\* and every record value is emitted as many times as there are pairs that
\* satisfy the predicate and carry that value (each pair exactly once, none
\* missing, none added).  A run of annotate_regions that ends in the
\* chromosome-mismatch error had no such pair.
C1_OverlapExact ==
  /\ GeneOverlapDone =>
       /\ \A k \in 1..Len(result_df) :
            Overlap(result_df[k].chromosome, result_df[k].start,
                    result_df[k].end, result_df[k].gene_chr,
                    result_df[k].gene_start_pos, result_df[k].gene_end_pos)
       /\ Len(result_df) = Cardinality(GenePairs)
       /\ \A p \in GenePairs :
            Cardinality({k \in 1..Len(result_df) :
                           GeneKey(result_df[k]) = GenePairKey(p)})
              = Cardinality({q \in GenePairs : GenePairKey(q) = GenePairKey(p)})
  /\ (cmd = "annotate" /\ error = "ChromosomeMismatch") => GenePairs = {}
  /\ QtlOverlapDone =>
       /\ \A k \in 1..Len(result_df) :
            /\ result_df[k].qtl_end >= result_df[k].region_start
            /\ result_df[k].qtl_start <= result_df[k].region_end
       /\ Len(result_df) = Cardinality(QtlPairs)
       /\ \A p \in QtlPairs :
            Cardinality({k \in 1..Len(result_df) :
                           QtlKey(result_df[k]) = QtlPairKey(p)})
              = Cardinality({q \in QtlPairs : QtlPairKey(q) = QtlPairKey(p)})

\* A gene run in which one query fans out to two genes on touching
\* boundaries while another pair on the same chromosome does not overlap.
C1_Witness ==
  /\ GeneOverlapDone
  /\ \E p, q \in GenePairs : p[1] = q[1] /\ p[2] # q[2]
  /\ \E p \in GenePairs : gtf_df[p[2]].end = input_df[p[1]].start
  /\ \E p \in GenePairs : gtf_df[p[2]].start = input_df[p[1]].end
  /\ \E i \in 1..Len(input_df), j \in 1..Len(gtf_df) :
       /\ input_df[i].chromosome = gtf_df[j].chromosome
       /\ <<i, j>> \notin GenePairs

\* The position of a pair among the pairs: the number of pairs not after it
\* by query index, then by reference index.
PairRank(pairs, p) ==
  Cardinality({q \in pairs : q[1] < p[1] \/ (q[1] = p[1] /\ q[2] <= p[2])})

\* C2: the records are emitted by query order, then by reference order
\* within each query: the k-th record is the record of the k-th satisfying
\* pair, pairs ordered by query index and then by reference index.  (That a
\* second run on the same input gives the same sequence follows, the order
\* being a function of the input alone.)
C2_StableOrder ==
  /\ GeneOverlapDone =>
       /\ Len(result_df) = Cardinality(GenePairs)
       /\ \A p \in GenePairs :
            GeneKey(result_df[PairRank(GenePairs, p)]) = GenePairKey(p)
  /\ QtlOverlapDone =>
       /\ Len(result_df) = Cardinality(QtlPairs)
       /\ \A p \in QtlPairs :
            QtlKey(result_df[PairRank(QtlPairs, p)]) = QtlPairKey(p)

\* A QTL run with two queries that each overlap two QTLs with different
\* records, so that query-major and reference-major order differ.
C2_Witness ==
  /\ QtlOverlapDone
  /\ Len(result_df) >= 3
  /\ \E p, q \in QtlPairs :
       /\ p[1] < q[1] /\ p[2] > q[2]
       /\ QtlPairKey(p) # QtlPairKey(q)

\* The labels of the query rows annotate_regions keeps (those whose start
\* and end are numbers), and the labels of the gene table.
KeptQueryLabels ==
  {input_file[i].chromosome :
     i \in {j \in 1..Len(input_file) :
              IsIntLiteral(input_file[j].start) /\ IsIntLiteral(input_file[j].end)}}

GeneLabels == {gtf_df[j].chromosome : j \in 1..Len(gtf_df)}

\* annotate_regions got past reading a non-empty query file.
AnnotateRegionsRan ==
  /\ cmd = "annotate"
  /\ \/ pc \in {"annotated", "done"}
     \/ pc = "failed" /\ error = "ChromosomeMismatch"

\* C3: when annotate_regions finds no overlap, it fails with the
\* chromosome-mismatch error if the labels of its query rows and of the gene
\* table are disjoint, and otherwise prints the notice and returns an empty
\* result without failing; with at least one overlap there is neither the
\* error nor the notice.
C3_MismatchDiagnosis ==
  AnnotateRegionsRan =>
    /\ (GenePairs = {} /\ KeptQueryLabels \cap GeneLabels = {}) =>
         /\ pc = "failed" /\ error = "ChromosomeMismatch" /\ exit_code = 1
         /\ "NoOverlapChromosomesMatch" \notin notices
    /\ (GenePairs = {} /\ KeptQueryLabels \cap GeneLabels # {}) =>
         /\ error = "none" /\ pc # "failed"
         /\ "NoOverlapChromosomesMatch" \in notices
         /\ result_df = <<>>
    /\ GenePairs # {} =>
         /\ error = "none" /\ pc # "failed"
         /\ "NoOverlapChromosomesMatch" \notin notices
         /\ result_df # <<>>

\* A run with matching labels but no overlap in position, which ends with
\* the notice, exit status 0 and no result.
C3_Witness ==
  /\ cmd = "annotate" /\ pc = "done" /\ exit_code = 0
  /\ GenePairs = {}
  /\ KeptQueryLabels \cap GeneLabels # {}
  /\ "NoOverlapChromosomesMatch" \in notices

\* The labels of the normalized query table and of the QTL table.
QueryLabels == {input_df[i].chromosome : i \in 1..Len(input_df)}

QtlLabels == {qtl_df[j].chromosome : j \in 1..Len(qtl_df)}

\* C4: in the QTL workflow, a run with at least one query region whose
\* overlap result is empty and whose normalized query labels share no label
\* with the QTL table fails with the chromosome-mismatch error and a
\* non-zero exit status; it does not write an empty result and exit 0.
C4_QtlMismatchIsFatal ==
  ( /\ cmd \in {"qtl", "qtl_trait"}
    /\ pc \in {"done", "failed"}
    /\ stream.state = "closed" /\ ~raised
    /\ Len(input_df) > 0 /\ Len(qtl_df) > 0
    /\ QtlPairs = {}
    /\ QueryLabels \cap QtlLabels = {} )
  => ( /\ error = "ChromosomeMismatch"
       /\ exit_code # 0
       /\ "output" \notin written )

\* The gene table that the feature filter and the dropping of incomplete
\* rows leave is empty.
FilteredGtfEmpty == Len(LoadGtf(ref_file, is_ncbi)) = 0

\* C5: sort_and_load_gtf fails with the empty-input error whenever the
\* record set left after the feature filter and the dropping of incomplete
\* rows is empty, a readable file of rows that are all filtered out
\* included: it never returns an empty gene table.
C5_EmptyFilteredGtfRaises ==
  ( /\ cmd = "annotate" /\ pc # "start"
    /\ FilteredGtfEmpty
    /\ error # "NotFoundOrUnreadable" )
  => ( /\ pc = "failed" /\ error = "EmptyInput"
       /\ gtf_df = <<>> )

\* The gene names of the overlap records before the coercion of
\* annotate.py:102, read from the gene table.
RawGeneNames == {gtf_df[p[2]].gene_name : p \in GenePairs}

ResultNames == {result_df[k].gene_name : k \in 1..Len(result_df)}

FirstIndexOf(n) ==
  CHOOSE k \in 1..Len(result_df) :
    /\ result_df[k].gene_name = n
    /\ \A j \in 1..(k - 1) : result_df[j].gene_name # n

\* C6: the unique-genes table holds exactly one record per distinct
\* gene_name of the overlap table, the first record of that name, in the
\* order of first appearance; the records whose name is missing or empty
\* are represented by exactly one record named "NA"; the reported count is
\* the number of distinct names after the coercion.
C6_UniqueGenes ==
  (cmd = "annotate" /\ pc = "done" /\ result_df # <<>>) =>
    /\ "unique" \in written
    /\ {unique_df[k].gene_name : k \in 1..Len(unique_df)} = ResultNames
    /\ Len(unique_df) = Cardinality(ResultNames)
    /\ \A k \in 1..Len(unique_df) :
         unique_df[k] = result_df[FirstIndexOf(unique_df[k].gene_name)]
    /\ \A k, l \in 1..Len(unique_df) :
         k < l => FirstIndexOf(unique_df[k].gene_name)
                    < FirstIndexOf(unique_df[l].gene_name)
    /\ NaN \notin ResultNames /\ "" \notin ResultNames
    /\ (RawGeneNames \cap {NaN, ""} # {}) =>
         Cardinality({k \in 1..Len(unique_df) : unique_df[k].gene_name = "NA"}) = 1
    /\ ResultNames = {IF n \in {NaN, ""} THEN "NA" ELSE n : n \in RawGeneNames}
    /\ summary.unique = Cardinality(ResultNames)

\* A run whose overlap table holds a name in two different records and a
\* record of a gene without a name.
C6_Witness ==
  /\ cmd = "annotate" /\ pc = "done"
  /\ Len(unique_df) >= 2
  /\ Len(result_df) > Len(unique_df)
  /\ NaN \in RawGeneNames
  /\ \E k, l \in 1..Len(result_df) :
       /\ k < l
       /\ result_df[k].gene_name = result_df[l].gene_name
       /\ result_df[k] # result_df[l]

\* The query rows whose start and end are both numbers, and the position of
\* such a row among them.
GoodRows ==
  {i \in 1..Len(input_file) :
     IsIntLiteral(input_file[i].start) /\ IsIntLiteral(input_file[i].end)}

GoodRank(i) == Cardinality({j \in GoodRows : j <= i})

HasBadRow == GoodRows # 1..Len(input_file)

\* The overlaps of the gene table with the good rows alone.
GoodRowPairs ==
  {p \in GoodRows \X (1..Len(gtf_df)) :
     Overlap(input_file[p[1]].chromosome, IntValue(input_file[p[1]].start),
             IntValue(input_file[p[1]].end), gtf_df[p[2]].chromosome,
             gtf_df[p[2]].start, gtf_df[p[2]].end)}

\* C7: a query row with a non-numeric start or end makes
\* parse_input_regions (QTL workflow) fail with a parse error, no record
\* returned and nothing computed; annotate_regions (gene workflow) drops
\* exactly the rows of that kind, keeps the others in their order, and
\* computes the overlaps of the rows it keeps.
C7_StrictVersusLenient ==
  /\ ( /\ cmd \in {"qtl", "qtl_trait"} /\ pc # "start"
       /\ HasBadRow
       /\ error # "NotFoundOrUnreadable" )
     => ( /\ pc = "failed" /\ error = "ParseError" /\ exit_code = 1
          /\ input_df = <<>> /\ result_df = <<>>
          /\ written = {} /\ stream.state = "unopened" )
  /\ AnnotateRegionsRan =>
       /\ error # "ParseError"
       /\ Len(input_df) = Cardinality(GoodRows)
       /\ \A i \in GoodRows :
            input_df[GoodRank(i)] =
              [chromosome |-> input_file[i].chromosome,
               start |-> IntValue(input_file[i].start),
               end |-> IntValue(input_file[i].end)]
       /\ pc # "failed" => Len(result_df) = Cardinality(GoodRowPairs)
       /\ pc = "failed" => GoodRowPairs = {}

\* A gene run on a file with a bad row before a good one, which ends with
\* the overlaps of the good row.
C7_Witness ==
  /\ cmd = "annotate" /\ pc = "done"
  /\ Len(input_file) = 2 /\ GoodRows = {2}
  /\ result_df # <<>>

\* The label begins with the four characters "Chr.".
HasChrPrefix(c) ==
  Len(c) >= 4 /\ c[1] = "C" /\ c[2] = "h" /\ c[3] = "r" /\ c[4] = "."

\* The labels of a file as read.
RawLabels(file) == {file[i].chromosome : i \in 1..Len(file)}

\* C8: parse_input_regions maps a label that starts with "Chr." to itself
\* and any other label c to "Chr." followed by c, so every label it returns
\* starts with "Chr." and normalizing it again changes nothing; the gene
\* workflow keeps the query labels and the gene labels as read and matches
\* them by equality.
C8_ChromosomeNormalization ==
  /\ (cmd \in {"qtl", "qtl_trait"} /\ pc \notin {"start", "failed"}) =>
       Len(input_df) = Len(input_file)
  /\ cmd \in {"qtl", "qtl_trait"} =>
       \A i \in 1..Len(input_df) :
         LET c == input_file[i].chromosome
             n == input_df[i].chromosome
         IN  /\ HasChrPrefix(c) => n = c
             /\ ~HasChrPrefix(c) => n = <<"C", "h", "r", ".">> \o c
             /\ HasChrPrefix(n)
             /\ NormalizeChromosome(n) = n
  /\ AnnotateRegionsRan =>
       /\ \A i \in GoodRows :
            input_df[GoodRank(i)].chromosome = input_file[i].chromosome
       /\ ChromosomeSet(gtf_df) \subseteq RawLabels(ref_file)
       /\ \A k \in 1..Len(result_df) :
            /\ result_df[k].chromosome \in RawLabels(input_file)
            /\ result_df[k].gene_chr = result_df[k].chromosome

\* A QTL run on a file that holds the same chromosome with and without the
\* prefix: both rows come out with the one prefixed label.
C8_Witness ==
  /\ cmd = "qtl" /\ pc = "done"
  /\ Len(input_df) = 2
  /\ input_file[1].chromosome # input_file[2].chromosome
  /\ input_df[1].chromosome = input_df[2].chromosome
  /\ result_df # <<>>

\* The start of a trailing "(<digits>)" group of a name, 0 when it has none.
TrailingIdStart(s) ==
  IF Len(s) >= 3 /\ s[Len(s)] = ")"
     /\ \E k \in 1..(Len(s) - 2) :
          s[k] = "(" /\ \A i \in (k + 1)..(Len(s) - 1) : s[i] \in Digits
  THEN CHOOSE k \in 1..(Len(s) - 2) :
         s[k] = "(" /\ \A i \in (k + 1)..(Len(s) - 1) : s[i] \in Digits
  ELSE 0

\* A QTL name with its trailing "(<id>)" suffix stripped.
StripTrailingId(s) ==
  IF TrailingIdStart(s) = 0 THEN Strip(s)
  ELSE Strip(SubSeq(s, 1, TrailingIdStart(s) - 1))

TraitKeys == [k \in 1..Len(result_df) |-> StripTrailingId(result_df[k].qtl_name)]

KeyCount(n) == Cardinality({k \in 1..Len(result_df) : TraitKeys[k] = n})

KeyFirst(n) ==
  CHOOSE k \in 1..Len(result_df) :
    TraitKeys[k] = n /\ \A j \in 1..(k - 1) : TraitKeys[j] # n

\* C9: without --trait the ranking lists at most the 10 most frequent keys,
\* a key being a QTL name with its trailing "(<id>)" suffix stripped and its
\* count the number of overlap records with that key, by non-increasing
\* count, keys of equal count in the order they are first met.
C9_TopTraitRanking ==
  (cmd = "qtl" /\ pc = "done" /\ result_df # <<>>) =>
    LET distinct == {TraitKeys[k] : k \in 1..Len(result_df)}
    IN  /\ Len(top_qtls) <= TopN
        /\ Len(top_qtls) = IF Cardinality(distinct) < TopN
                           THEN Cardinality(distinct) ELSE TopN
        /\ \A i \in 1..Len(top_qtls) :
             /\ top_qtls[i].name \in distinct
             /\ top_qtls[i].count = KeyCount(top_qtls[i].name)
        /\ \A i, j \in 1..Len(top_qtls) :
             i < j =>
               /\ top_qtls[i].name # top_qtls[j].name
               /\ top_qtls[i].count >= top_qtls[j].count
               /\ top_qtls[i].count = top_qtls[j].count =>
                    KeyFirst(top_qtls[i].name) < KeyFirst(top_qtls[j].name)

\* C10: every stream opened for QTL parsing is closed on every exit path,
\* whether the parser returns or raises, and exactly once, by its opener:
\* the parser closes the stream it opened from a path and never the stream
\* run_qtl passed in, which the with statement of run_qtl closes.
C10_StreamsClosed ==
  /\ "parser" \in {stream.closers[i] : i \in 1..Len(stream.closers)} =>
       stream.opener = "parser"
  /\ Len(stream.closers) <= 1
  /\ pc \in {"done", "failed"} =>
       /\ stream.state # "open"
       /\ stream.opener = "parser" => stream.closers = <<"parser">>
       /\ stream.opener = "run_qtl" => stream.closers = <<"run_qtl">>
       /\ stream.opener = "none" => stream.closers = <<>>

\* A run of run_qtl in which the parser raised on the open stream: the run
\* failed and the stream is closed, once, by the with statement.
C10_Witness ==
  /\ cmd \in {"qtl", "qtl_trait"} /\ pc = "failed" /\ raised
  /\ error = "ParseError" /\ exit_code = 1
  /\ stream = [state |-> "closed", opener |-> "run_qtl",
               closers |-> <<"run_qtl">>]

\* The column begins with "(", n digits and ")".
BeginsWithIdToken(col, n) ==
  /\ n >= 1 /\ Len(col) >= n + 2
  /\ col[1] = "(" /\ col[n + 2] = ")"
  /\ \A i \in 2..(n + 1) : col[i] \in Digits

HasIdToken(col) == \E n \in 1..Len(col) : BeginsWithIdToken(col, n)

\* The digits of the token the column begins with.
IdDigits(col) ==
  LET n == CHOOSE m \in 1..Len(col) : BeginsWithIdToken(col, m)
  IN  [i \in 1..n |-> col[i + 1]]

\* The first of the columns 3..N (positions 4.. of the row) that begins with
\* such a token, 0 when none does.
StopColumn(row) ==
  IF \E k \in 4..Len(row) : HasIdToken(row[k])
  THEN CHOOSE k \in 4..Len(row) :
         HasIdToken(row[k]) /\ \A j \in 4..(k - 1) : ~HasIdToken(row[j])
  ELSE 0

\* The last column the scan appends to the name.
LastScanned(row) == IF StopColumn(row) = 0 THEN Len(row) ELSE StopColumn(row)

\* The rows of the BED file with at least 4 columns, and the position of
\* such a row among them.
LongRows == {i \in 1..Len(ref_file) : Len(ref_file[i]) >= 4}

LongRank(i) == Cardinality({j \in LongRows : j <= i})

\* parse_qtl_bed has gone through its rows without raising.
BedParsed ==
  /\ cmd \in {"qtl", "parse_qtl_bed"}
  /\ pc \in {"finally", "with_exit", "qtl_loaded", "overlapped", "done"}
  /\ ~raised

\* C11: when parse_qtl_bed returns, its table holds one record per row of at
\* least 4 columns, in order, and none for a shorter row; the scan of the
\* columns 3..N stops at the first column that begins with "(<digits>)":
\* qtl_number is the digits of that token, None when no column has one, and
\* qtl_name is the trimmed, space-joined text of the columns up to and
\* including that column, the later columns left out.
C11_BedNameScan ==
  BedParsed =>
    /\ Len(qtl_df) = Cardinality(LongRows)
    /\ \A i \in LongRows :
         LET row == ref_file[i]
             rec == qtl_df[LongRank(i)]
         IN  /\ rec.chromosome = row[1]
             /\ rec.qtl_start = IntValue(row[2])
             /\ rec.qtl_end = IntValue(row[3])
             /\ rec.qtl_number = IF StopColumn(row) = 0 THEN NoneVal
                                 ELSE IdDigits(row[StopColumn(row)])
             /\ rec.qtl_name = Strip(JoinSp(SubSeq(row, 4, LastScanned(row))))

\* A direct call on a file with a row of 3 columns and a row whose matching
\* column begins with a token followed by text and is followed by another
\* column: one record, numbered by the first token.
C11_Witness ==
  /\ cmd = "parse_qtl_bed" /\ pc = "done"
  /\ Len(ref_file) = 2 /\ Len(qtl_df) = 1
  /\ \E i \in 1..2 : Len(ref_file[i]) < 4
  /\ \E i \in LongRows :
       /\ StopColumn(ref_file[i]) # 0
       /\ StopColumn(ref_file[i]) < Len(ref_file[i])
       /\ Len(ref_file[i][StopColumn(ref_file[i])])
            > Len(IdDigits(ref_file[i][StopColumn(ref_file[i])])) + 2
       /\ \E j \in 4..(StopColumn(ref_file[i]) - 1) : Len(ref_file[i][j]) > 0

=============================================================================
